---- MODULE Spec2Model ----
(***************************************************************************)
(* Model of server/scripts/veo_ad_creation/generate_ad.py: one call of     *)
(* create_gamebuddies_ad(), the sequential locate / load / submit / poll / *)
(* save pipeline, together with the environment it talks to (the local     *)
(* filesystem and the remote video-generation service).                    *)
(***************************************************************************)
EXTENDS Integers, Sequences, FiniteSets, TLC

\* ------------------------------------------------------------------ bounds
\* API-call counters saturate at MaxCalls (the polling loop is unbounded).
MaxCalls == 2
\* Longest generated_videos list the service returns in the model.
MaxVideos == 2

\* ------------------------------------------------------- values and helpers
\* Python's None / Optional: None is the empty tuple, a value x is <<x>>.
None == <<>>
Some(x) == <<x>>
IsNone(o) == Len(o) = 0
Val(o) == o[1]

Min(a, b) == IF a < b THEN a ELSE b
Inc(n) == Min(n + 1, MaxCalls)

\* The three candidate avatar paths, in the order of the list literal.
avatar_files == << "premium/archer.png", "premium/knight.png", "premium/mage.png" >>
Paths == { avatar_files[k] : k \in 1..Len(avatar_files) }

\* The bytes stored in each avatar file.
FileContent(p) ==
    CASE p = "premium/archer.png" -> "png_archer"
      [] p = "premium/knight.png" -> "png_knight"
      [] OTHER -> "png_mage"
ImageBytes == { FileContent(p) : p \in Paths }
\* What open(path, "rb") + f.read() can do: raise, or return the file's bytes.
ReadOutcomes(p) == { "IOError", FileContent(p) }

\* types.VideoGenerationReferenceImage(image=types.Image(...), reference_type="asset")
ReferenceImage(image_bytes) ==
    [ image |-> [ image_bytes |-> image_bytes, mime_type |-> "image/png" ],
      reference_type |-> "asset" ]

\* Remote video handles and the bytes the service stores for each.
Videos == { "video_a", "video_b" }
RemoteContent(v) == IF v = "video_a" THEN "mp4_a" ELSE "mp4_b"

\* The lists of distinct elements of S of length at most n.
RECURSIVE ListsUpTo(_, _)
ListsUpTo(S, n) ==
    IF n = 0 THEN { <<>> }
    ELSE LET shorter == ListsUpTo(S, n - 1)
             longest == { t \in shorter : Len(t) = n - 1 }
         IN  shorter \cup
             UNION { { Append(t, x) : x \in S \ { t[i] : i \in 1..Len(t) } } : t \in longest }

\* operation.result: None, or a response whose generated_videos is None or a list.
Results ==
    { None } \cup
    { Some([ generated_videos |-> gv ]) :
        gv \in { None } \cup { Some(l) : l \in ListsUpTo(Videos, MaxVideos) } }

\* operation.done is Optional[bool]; operation.error is an optional error dict.
DoneValues == { "True", "False", "None" }
Errors == { None, Some("quota_exceeded") }

Operations == [ done : DoneValues, result : Results, error : Errors ]

\* Python truthiness of operation.done.
DoneTruthy(d) == d = "True"

\* What client.files.download can return: bytes, or something else.
DownloadedBytes(v) == [ type |-> "bytes", value |-> RemoteContent(v) ]
NonBytes == { [ type |-> "str", value |-> "/tmp/video.mp4" ],
              [ type |-> "NoneType", value |-> "None" ] }

\* Content of the output file on disk: None when the file does not exist.
OldContent == "old_mp4"
Truncated == ""

\* ------------------------------------------------------------------- state
VARIABLES
    pc,                 \* position in create_gamebuddies_ad
    idx,                \* index of the for loop in progress
    valid_avatars,      \* list built at lines 27-32
    reference_images,   \* list built at lines 41-60
    operation,          \* the local `operation` (None while unbound)
    video,              \* the local `video` (None while unbound)
    downloaded_content, \* the local `downloaded_content` (None while unbound)
    log,                \* what has been printed, as a set of <<tag, detail>>
    outfile,            \* content of gamebuddies_veo_ad.mp4 (None: no file)
    job,                \* remote job: "none", "running" or "complete"
    existed,            \* per path, what os.path.exists answered ("?" before)
    readResult,         \* per path, what reading it gave ("?" before)
    request,            \* the arguments generate_videos was called with
    genCalls,           \* number of generate_videos calls
    getCalls,           \* number of operations.get calls
    sleepCalls,         \* number of time.sleep calls
    dlCalls,            \* number of files.download calls
    dlArg,              \* the file= argument of files.download
    resultRead,         \* whether operation.result has been read
    before              \* content of the output file when the run started

vars == << pc, idx, valid_avatars, reference_images, operation, video,
           downloaded_content, log, outfile, job, existed, readResult, request,
           genCalls, getCalls, sleepCalls, dlCalls, dlArg, resultRead, before >>

locals == << valid_avatars, reference_images, operation, video, downloaded_content >>
calls == << genCalls, getCalls, sleepCalls, dlCalls >>


Init ==
    /\ pc = "locate"
    /\ idx = 1
    /\ valid_avatars = <<>>
    /\ reference_images = <<>>
    /\ operation = None
    /\ video = None
    /\ downloaded_content = None
    /\ log = { << "start", "" >> }
    /\ outfile \in { None, Some(OldContent) }
    /\ before = outfile
    /\ job = "none"
    /\ existed = [ p \in Paths |-> "?" ]
    /\ readResult = [ p \in Paths |-> "?" ]
    /\ request = None
    /\ genCalls = 0
    /\ getCalls = 0
    /\ sleepCalls = 0
    /\ dlCalls = 0
    /\ dlArg = None
    /\ resultRead = FALSE

\* ------------------------------------------------------------ Asset Locator
\* One iteration of `for p in avatar_files` (lines 28-32).
LocateStep ==
    /\ pc = "locate"
    /\ idx <= Len(avatar_files)
    /\ LET p == avatar_files[idx] IN
       \E found \in BOOLEAN :
          /\ existed' = [ existed EXCEPT ![p] = IF found THEN "yes" ELSE "no" ]
          /\ IF found
             THEN /\ valid_avatars' = Append(valid_avatars, p)
                  /\ log' = log
             ELSE /\ valid_avatars' = valid_avatars
                  /\ log' = log \cup { << "warning_not_found", p >> }
    /\ idx' = idx + 1
    /\ UNCHANGED << pc, reference_images, operation, video, downloaded_content,
                    outfile, job, readResult, request, calls, dlArg, resultRead, before >>

\* CheckValid without the early return: the run goes on with an empty list.
CheckValid_NoReturn ==
    /\ pc = "locate"
    /\ idx > Len(avatar_files)
    /\ log' = log \cup { << "found", "" >> }
    /\ pc' = "load"
    /\ idx' = 1
    /\ UNCHANGED << locals, outfile, job, existed, readResult, request, calls,
                    dlArg, resultRead, before >>

\* `if not valid_avatars: ... return` and the "Found" message (lines 34-38).
CheckValid ==
    /\ pc = "locate"
    /\ idx > Len(avatar_files)
    /\ IF valid_avatars = <<>>
       THEN /\ log' = log \cup { << "no_avatars", "" >> }
            /\ pc' = "done"
       ELSE /\ log' = log \cup { << "found", "" >> }
            /\ pc' = "load"
    /\ idx' = 1
    /\ UNCHANGED << locals, outfile, job, existed, readResult, request, calls,
                    dlArg, resultRead, before >>

\* -------------------------------------------------------------- Image Loader
\* LoadStep where a failed read ends the loop (the try around the whole loop).
LoadStep_AbortOnFailure ==
    /\ pc = "load"
    /\ idx <= Len(valid_avatars)
    /\ LET path == valid_avatars[idx] IN
       \E r \in ReadOutcomes(path) :
          /\ readResult' = [ readResult EXCEPT ![path] = r ]
          /\ IF r = "IOError"
             THEN /\ reference_images' = reference_images
                  /\ log' = log \cup { << "loading", path >>, << "load_failed", path >> }
                  /\ idx' = Len(valid_avatars) + 1
             ELSE /\ reference_images' = Append(reference_images, ReferenceImage(r))
                  /\ log' = log \cup { << "loading", path >> }
                  /\ idx' = idx + 1
    /\ UNCHANGED << pc, valid_avatars, operation, video, downloaded_content,
                    outfile, job, existed, request, calls, dlArg, resultRead, before >>

\* One iteration of `for path in valid_avatars` (lines 43-60).
LoadStep ==
    /\ pc = "load"
    /\ idx <= Len(valid_avatars)
    /\ LET path == valid_avatars[idx] IN
       \E r \in ReadOutcomes(path) :
          /\ readResult' = [ readResult EXCEPT ![path] = r ]
          /\ IF r = "IOError"
             THEN /\ reference_images' = reference_images
                  /\ log' = log \cup { << "loading", path >>, << "load_failed", path >> }
             ELSE /\ reference_images' = Append(reference_images, ReferenceImage(r))
                  /\ log' = log \cup { << "loading", path >> }
    /\ idx' = idx + 1
    /\ UNCHANGED << pc, valid_avatars, operation, video, downloaded_content,
                    outfile, job, existed, request, calls, dlArg, resultRead, before >>

\* ----------------------------------------------------------- Request Builder
\* BuildRequest gated on load success: no images, no submission.
BuildRequest_RequireImages ==
    /\ pc = "load"
    /\ idx > Len(valid_avatars)
    /\ IF reference_images = <<>>
       THEN /\ log' = log \cup { << "no_avatars", "" >> }
            /\ pc' = "done"
       ELSE /\ log' = log \cup { << "sending", "" >> }
            /\ pc' = "submit"
    /\ UNCHANGED << idx, locals, outfile, job, existed, readResult, request,
                    calls, dlArg, resultRead, before >>

\* End of the load loop: the prompt is built and "Sending request" printed
\* (lines 62-74).  No test of reference_images stands between loop and call.
BuildRequest ==
    /\ pc = "load"
    /\ idx > Len(valid_avatars)
    /\ log' = log \cup { << "sending", "" >> }
    /\ pc' = "submit"
    /\ UNCHANGED << idx, locals, outfile, job, existed, readResult, request,
                    calls, dlArg, resultRead, before >>

GenerationRequest ==
    [ model |-> "veo-3.1-generate-preview",
      prompt |-> "cinematic trailer",
      reference_images |-> reference_images ]

\* ------------------------------------------------------ Job Submitter/Poller
\* client.models.generate_videos returns an Operation (lines 76-86).
SubmitReturns ==
    /\ pc = "submit"
    /\ genCalls' = Inc(genCalls)
    /\ request' = Some(GenerationRequest)
    /\ \E op \in Operations :
          /\ operation' = Some(op)
          /\ job' = IF DoneTruthy(op.done) THEN "complete" ELSE "running"
    /\ log' = log \cup { << "waiting", "" >> }
    /\ pc' = "poll_test"
    /\ UNCHANGED << idx, valid_avatars, reference_images, video,
                    downloaded_content, outfile, existed, readResult,
                    getCalls, sleepCalls, dlCalls, dlArg, resultRead, before >>

\* SubmitRaises with a retry: the failed submission is attempted again.
SubmitRaises_Retry ==
    /\ pc = "submit"
    /\ genCalls' = Inc(genCalls)
    /\ request' = Some(GenerationRequest)
    /\ log' = log \cup { << "api_failed", "" >> }
    /\ pc' = "submit"
    /\ UNCHANGED << idx, locals, outfile, job, existed, readResult,
                    getCalls, sleepCalls, dlCalls, dlArg, resultRead, before >>

\* client.models.generate_videos raises: the outer handler (lines 130-131).
SubmitRaises ==
    /\ pc = "submit"
    /\ genCalls' = Inc(genCalls)
    /\ request' = Some(GenerationRequest)
    /\ log' = log \cup { << "api_failed", "" >> }
    /\ pc' = "done"
    /\ UNCHANGED << idx, locals, outfile, job, existed, readResult,
                    getCalls, sleepCalls, dlCalls, dlArg, resultRead, before >>

\* Loop conditions a slip would give: wait for a result; a forgotten `not`.
LoopCond_UntilResult(op) == IsNone(op.result)
LoopCond_Inverted(op) == DoneTruthy(op.done)

\* The loop condition `not operation.done` (line 87).
LoopCond(op) == ~DoneTruthy(op.done)

\* PollTest with an attempt limit: the loop gives up after one fetch.
PollTest_AttemptLimit ==
    /\ pc = "poll_test"
    /\ IF LoopCond(Val(operation)) /\ getCalls < 1
       THEN /\ pc' = "poll_body"
            /\ log' = log
       ELSE /\ pc' = "inspect"
            /\ log' = log \cup { << "complete", "" >> }
    /\ UNCHANGED << idx, locals, outfile, job, existed, readResult, request,
                    calls, dlArg, resultRead, before >>

\* Evaluation of the `while` test; on exit "Generation complete" (lines 87, 92).
PollTest ==
    /\ pc = "poll_test"
    /\ IF LoopCond(Val(operation))
       THEN /\ pc' = "poll_body"
            /\ log' = log
       ELSE /\ pc' = "inspect"
            /\ log' = log \cup { << "complete", "" >> }
    /\ UNCHANGED << idx, locals, outfile, job, existed, readResult, request,
                    calls, dlArg, resultRead, before >>

\* What the service answers to operations.get: done exactly when the job is.
Fetchable == { op \in Operations : DoneTruthy(op.done) <=> (job = "complete") }

\* Loop body: sleep, re-fetch, print a dot (lines 88-90).
PollReturns ==
    /\ pc = "poll_body"
    /\ sleepCalls' = Inc(sleepCalls)
    /\ getCalls' = Inc(getCalls)
    /\ \E op \in Fetchable : operation' = Some(op)
    /\ log' = log \cup { << "dot", "" >> }
    /\ pc' = "poll_test"
    /\ UNCHANGED << idx, valid_avatars, reference_images, video,
                    downloaded_content, outfile, job, existed, readResult,
                    request, genCalls, dlCalls, dlArg, resultRead, before >>

\* Loop body where operations.get raises: the outer handler (lines 88-89, 130-131).
PollRaises ==
    /\ pc = "poll_body"
    /\ sleepCalls' = Inc(sleepCalls)
    /\ getCalls' = Inc(getCalls)
    /\ log' = log \cup { << "api_failed", "" >> }
    /\ pc' = "done"
    /\ UNCHANGED << idx, locals, outfile, job, existed, readResult, request,
                    genCalls, dlCalls, dlArg, resultRead, before >>

\* The remote service finishes the job (the environment of line 89).
ServiceComplete ==
    /\ job = "running"
    /\ job' = "complete"
    /\ UNCHANGED << pc, idx, locals, log, outfile, existed, readResult, request,
                    calls, dlArg, resultRead, before >>

\* ----------------------------------------------------------- Result Persister
\* `operation.result and operation.result.generated_videos` (line 94).
HasVideos(op) ==
    /\ ~IsNone(op.result)
    /\ ~IsNone(Val(op.result).generated_videos)
    /\ Val(Val(op.result).generated_videos) # <<>>

\* Taking the last video of the list instead of the first.
LastVideo(op) ==
    LET gv == Val(Val(op.result).generated_videos) IN gv[Len(gv)]

\* `operation.result.generated_videos[0]` (line 95).
FirstVideo(op) == Val(Val(op.result).generated_videos)[1]

\* The true branch of line 94 up to "Saving video to" (lines 94-98).
InspectVideo ==
    /\ pc = "inspect"
    /\ resultRead' = TRUE
    /\ HasVideos(Val(operation))
    /\ video' = Some(FirstVideo(Val(operation)))
    /\ log' = log \cup { << "saving", "" >> }
    /\ pc' = "download"
    /\ UNCHANGED << idx, valid_avatars, reference_images, operation,
                    downloaded_content, outfile, job, existed, readResult,
                    request, calls, dlArg, before >>

\* InspectNoVideo that never reports the Operation's error.
InspectNoVideo_Silent ==
    /\ pc = "inspect"
    /\ resultRead' = TRUE
    /\ ~HasVideos(Val(operation))
    /\ log' = log \cup { << "no_video", "" >> }
    /\ pc' = "done"
    /\ UNCHANGED << idx, locals, outfile, job, existed, readResult, request,
                    calls, dlArg, before >>

\* The else branch of line 94 (lines 125-128).
InspectNoVideo ==
    /\ pc = "inspect"
    /\ resultRead' = TRUE
    /\ ~HasVideos(Val(operation))
    /\ log' = log \cup { << "no_video", "" >> } \cup
              ( IF ~IsNone(Val(operation).error)
                THEN { << "error", Val(Val(operation).error) >> }
                ELSE {} )
    /\ pc' = "done"
    /\ UNCHANGED << idx, locals, outfile, job, existed, readResult, request,
                    calls, dlArg, before >>

\* files.download returns bytes (lines 102-115).
DownloadBytes ==
    /\ pc = "download"
    /\ dlCalls' = Inc(dlCalls)
    /\ dlArg' = video
    /\ downloaded_content' = Some(DownloadedBytes(Val(video)))
    /\ log' = log \cup { << "debug", "" >>, << "download_bytes", "" >> }
    /\ pc' = "write"
    /\ UNCHANGED << idx, valid_avatars, reference_images, operation, video,
                    outfile, job, existed, readResult, request,
                    genCalls, getCalls, sleepCalls, resultRead, before >>

\* DownloadOther that writes the value's text to the output file.
DownloadOther_WritesText ==
    /\ pc = "download"
    /\ dlCalls' = Inc(dlCalls)
    /\ dlArg' = video
    /\ \E c \in NonBytes :
          /\ downloaded_content' = Some(c)
          /\ outfile' = Some(c.value)
          /\ log' = log \cup { << "debug", "" >>, << "download_returned", c.type >> }
    /\ pc' = "done"
    /\ UNCHANGED << idx, valid_avatars, reference_images, operation, video,
                    job, existed, readResult, request,
                    genCalls, getCalls, sleepCalls, resultRead, before >>

\* files.download returns something that is not bytes (lines 102-114, 119-121).
DownloadOther ==
    /\ pc = "download"
    /\ dlCalls' = Inc(dlCalls)
    /\ dlArg' = video
    /\ \E c \in NonBytes :
          /\ downloaded_content' = Some(c)
          /\ log' = log \cup { << "debug", "" >>, << "download_returned", c.type >> }
    /\ pc' = "done"
    /\ UNCHANGED << idx, valid_avatars, reference_images, operation, video,
                    outfile, job, existed, readResult, request,
                    genCalls, getCalls, sleepCalls, resultRead, before >>

\* files.download raises: the inner handler (lines 111, 123-124).
DownloadRaises ==
    /\ pc = "download"
    /\ dlCalls' = Inc(dlCalls)
    /\ dlArg' = video
    /\ log' = log \cup { << "debug", "" >>, << "save_failed", "" >> }
    /\ pc' = "done"
    /\ UNCHANGED << idx, locals, outfile, job, existed, readResult, request,
                    genCalls, getCalls, sleepCalls, resultRead, before >>

\* open(output_path, "wb") and f.write succeed (lines 116-118).
WriteOk ==
    /\ pc = "write"
    /\ outfile' = Some(Val(downloaded_content).value)
    /\ log' = log \cup { << "saved", "" >> }
    /\ pc' = "done"
    /\ UNCHANGED << idx, locals, job, existed, readResult, request, calls,
                    dlArg, resultRead, before >>

\* open(output_path, "wb") raises: nothing is touched (lines 116, 123-124).
WriteOpenRaises ==
    /\ pc = "write"
    /\ log' = log \cup { << "save_failed", "" >> }
    /\ pc' = "done"
    /\ UNCHANGED << idx, locals, outfile, job, existed, readResult, request,
                    calls, dlArg, resultRead, before >>

\* open succeeded (the file is truncated) and f.write raises (lines 116-117, 123-124).
WriteRaises ==
    /\ pc = "write"
    /\ outfile' = Some(Truncated)
    /\ log' = log \cup { << "save_failed", "" >> }
    /\ pc' = "done"
    /\ UNCHANGED << idx, locals, job, existed, readResult, request, calls,
                    dlArg, resultRead, before >>

\* ------------------------------------------------------------ specification
Program ==
    \/ LocateStep \/ CheckValid \/ LoadStep \/ BuildRequest
    \/ SubmitReturns \/ SubmitRaises \/ PollTest \/ PollReturns \/ PollRaises
    \/ InspectVideo \/ InspectNoVideo
    \/ DownloadBytes \/ DownloadOther \/ DownloadRaises
    \/ WriteOk \/ WriteOpenRaises \/ WriteRaises

Next ==
    \/ LocateStep
    \/ CheckValid
    \/ LoadStep
    \/ BuildRequest
    \/ SubmitReturns
    \/ SubmitRaises
    \/ PollTest
    \/ PollReturns
    \/ PollRaises
    \/ ServiceComplete
    \/ InspectVideo
    \/ InspectNoVideo
    \/ DownloadBytes
    \/ DownloadOther
    \/ DownloadRaises
    \/ WriteOk
    \/ WriteOpenRaises
    \/ WriteRaises

Spec == Init /\ [][Next]_vars

\* The interpreter keeps executing the function (it is the only thread).
FairSpec == Spec /\ WF_vars(Program)

\* ------------------------------------------------------------------ claims
Op == Val(operation)
Submitted == ~IsNone(operation)
ObservedDone == Submitted /\ DoneTruthy(Op.done)
NoneExisted == \A p \in Paths : existed[p] = "no"
SomeExisted == \E p \in Paths : existed[p] = "yes"
NoApiCall == genCalls = 0 /\ getCalls = 0 /\ dlCalls = 0

\* The files that existed and whose read gave bytes, in the order of avatar_files,
\* and the reference images they stand for.
WasRead(p) == existed[p] = "yes" /\ readResult[p] \in ImageBytes
ExpectedImages ==
    LET ok == SelectSeq(avatar_files, WasRead)
    IN  [ k \in 1..Len(ok) |-> ReferenceImage(readResult[ok[k]]) ]

\* C1: when no candidate path exists the run ends at the early return with no
\* generate_videos, operations.get or files.download call; and whenever
\* generate_videos has been called, some path had passed the existence check.
C1_NoAvatarsNoApiCall ==
    /\ NoneExisted => (pc \in { "locate", "done" } /\ NoApiCall /\ IsNone(request))
    /\ (NoneExisted /\ pc = "done") => << "no_avatars", "" >> \in log
    /\ genCalls > 0 => SomeExisted

C1_Witness == NoneExisted /\ pc = "done"

\* C2: at the loop test, an Operation whose done is not true always leads to
\* another sleep-then-get step; each such step makes one sleep and one get; and
\* once the Operation held is done (from the submission or from a fetch, with
\* or without result or error) no further sleep or get is made and the
\* Operation is never re-fetched.
C2_PollUntilDone ==
    [][ /\ (pc = "poll_test" /\ pc' # pc /\ ~DoneTruthy(Op.done)) => pc' = "poll_body"
        /\ (pc = "poll_body" /\ pc' # pc) =>
              (getCalls' = Inc(getCalls) /\ sleepCalls' = Inc(sleepCalls))
        /\ ObservedDone =>
              (getCalls' = getCalls /\ sleepCalls' = sleepCalls /\ operation' = operation)
        /\ (pc = "submit" /\ operation' # None /\ DoneTruthy(Val(operation').done)) =>
              getCalls' = 0
      ]_vars

C2_Witness ==
    /\ ObservedDone
    /\ getCalls = MaxCalls
    /\ IsNone(Op.result)
    /\ ~IsNone(Op.error)
    /\ pc = "done"

\* C3: every step that reads operation.result or operation.error, calls
\* files.download or changes the output file starts in a state where the
\* Operation last fetched has done = true.
C3_ResultReadOnlyWhenDone ==
    [][ ( \/ resultRead' # resultRead
          \/ dlCalls' # dlCalls
          \/ outfile' # outfile
          \/ video' # video
          \/ (log' \ log) \cap { << "no_video", "" >>, << "saving", "" >>,
                                 << "error", "quota_exceeded" >> } # {} )
        => ObservedDone ]_vars

C3_Witness == resultRead /\ getCalls = MaxCalls /\ dlCalls = 1 /\ outfile # before

\* C4: once the load loop is over, reference_images holds exactly one
\* ReferenceImage (the file's bytes, image/png, "asset") per existing file whose
\* read succeeded, in the order of avatar_files; every existing file was read,
\* also those after a failed read; each failed read was logged.
C4_OneImagePerReadableFile ==
    pc \notin { "locate", "load" } =>
        /\ reference_images = ExpectedImages
        /\ \A p \in Paths :
              /\ existed[p] = "yes" => readResult[p] # "?"
              /\ existed[p] = "no" => readResult[p] = "?"
              /\ (<< "load_failed", p >> \in log) <=> (readResult[p] = "IOError")

C4_Witness ==
    /\ pc = "submit"
    /\ \A p \in Paths : existed[p] = "yes"
    /\ readResult[avatar_files[1]] = "png_archer"
    /\ readResult[avatar_files[2]] = "IOError"
    /\ readResult[avatar_files[3]] = "png_mage"
    /\ Len(reference_images) = 2

\* The run is over, the Operation had videos and the download gave bytes.
DownloadGaveBytes ==
    /\ pc = "done"
    /\ resultRead
    /\ HasVideos(Op)
    /\ ~IsNone(downloaded_content)
    /\ Val(downloaded_content).type = "bytes"

C6_NoVideoNoWrite ==
    (resultRead /\ ~HasVideos(Op)) =>
        /\ pc = "done"
        /\ dlCalls = 0
        /\ IsNone(video)
        /\ outfile = before
        /\ << "no_video", "" >> \in log
        /\ ~IsNone(Op.error) => << "error", Val(Op.error) >> \in log
        /\ IsNone(Op.error) => << "error", "quota_exceeded" >> \notin log

C6_Witness ==
    /\ resultRead
    /\ ~IsNone(Op.result)
    /\ Val(Op.result).generated_videos = Some(<<>>)
    /\ ~IsNone(Op.error)
    /\ before = Some(OldContent)

\* The download returned a value that is not bytes.
DownloadGaveOther ==
    /\ ~IsNone(downloaded_content)
    /\ Val(downloaded_content).type # "bytes"

\* C7: when files.download returns a value that is not bytes, the run is over
\* with the output file as it was before the run, the value's type logged, and
\* one submission and one download made in all (no retry).
C7_NonBytesNoWrite ==
    DownloadGaveOther =>
        /\ pc = "done"
        /\ ~ENABLED Program
        /\ outfile = before
        /\ << "download_returned", Val(downloaded_content).type >> \in log
        /\ << "saved", "" >> \notin log
        /\ genCalls = 1
        /\ dlCalls = 1

C7_Witness ==
    /\ DownloadGaveOther
    /\ Val(downloaded_content).type = "NoneType"
    /\ before = Some(OldContent)

\* An exception of the submission or of a fetch, or of the download or save.
ApiFailed == << "api_failed", "" >> \in log
SaveFailed == << "save_failed", "" >> \in log

\* C8: once an exception of the submission, of a fetch or of the download has
\* been logged the run is over (the function has returned) and no API call
\* follows; generate_videos is called at most once in a run.
C8_FailureEndsRun ==
    /\ genCalls <= 1
    /\ dlCalls <= 1
    /\ (ApiFailed \/ SaveFailed) => (pc = "done" /\ ~ENABLED Program)
    /\ ApiFailed => (IsNone(video) /\ dlCalls = 0 /\ outfile = before /\ ~resultRead)

C8_Witness ==
    /\ ApiFailed
    /\ getCalls = MaxCalls
    /\ pc = "done"

\* The terminal outcomes of the Operation.
CompletedWithResult == pc = "done" /\ resultRead /\ HasVideos(Op)
CompletedWithoutResult == pc = "done" /\ resultRead /\ ~HasVideos(Op)
Errored == pc = "done" /\ ApiFailed
Terminal == CompletedWithResult \/ CompletedWithoutResult \/ Errored

\* C9: in a run where the service never completes the job and no call raises,
\* the loop is never left: once submitted, the run is at the loop body again
\* and again and reaches no terminal outcome.  In a run where the service
\* completes the job, or a call raises, a terminal outcome is reached.
C9_UnboundedPolling ==
    /\ ([](job # "complete") /\ []~ApiFailed) =>
          ([]~Terminal /\ (<>Submitted => []<>(pc = "poll_body")))
    /\ (<>(job = "complete") \/ <>ApiFailed) => <>Terminal

C9_Witness ==
    /\ pc = "poll_body"
    /\ job = "running"
    /\ getCalls = MaxCalls

\* C10: whenever some candidate path exists, generate_videos is called exactly
\* once, with the images loaded so far as its reference images, also when that
\* list is empty because every read failed.
C10_SubmissionGatedOnExistence ==
    /\ genCalls <= 1
    /\ (SomeExisted /\ pc \notin { "locate", "load", "submit" }) =>
          /\ genCalls = 1
          /\ ~IsNone(request)
          /\ Val(request).reference_images = ExpectedImages
          /\ Val(request).reference_images = reference_images
    /\ genCalls = 1 => SomeExisted

C10_Witness ==
    /\ genCalls = 1
    /\ Val(request).reference_images = <<>>
    /\ \A p \in Paths : existed[p] = "yes" /\ readResult[p] = "IOError"

====
